---- MODULE Spec2Model ----
(***************************************************************************)
(* A model of the ingestion pipeline of TheMappingOverseer:                *)
(*   overseer/io/loader.py     load_metrics, _read_csv_with_fallback       *)
(*   overseer/rules/checks.py  detect_drops                                *)
(* Spec models one run of load_metrics over a bounded list of CSV files;   *)
(* SpecDrops models detect_drops applied to a bounded metric column.       *)
(***************************************************************************)
EXTENDS Integers, Sequences, FiniteSets, TLC

\* ------------------------------------------------------------- bounds
MaxFiles == 3
MaxSample == 3
MaxBudget == 2
MaxLen == 4

\* ------------------------------------------------- program constants
\* Python's None for the optional budgets `sample` and `max_files`.
None == -1
\* loader.py:122  sample_files = csvs[: min(len(csvs), 5)]
SampleFileLimit == 5
\* loader.py:123  sample_rows = 200
sample_rows == 200
\* loader.py:158  numeric_votes / non_null_votes >= 0.95, as a percentage
NumericPct == 95

Range(s) == {s[j] : j \in 1..Len(s)}
Min(a, b) == IF a <= b THEN a ELSE b

\* ------------------------------------------------------ the input files
\* A CSV file, as far as the loader can tell files apart:
\*   hdr   which header reader succeeds ("strict": pl.read_csv(n_rows=0);
\*         "pandas": only the pandas fallback; "bad": none)
\*   dec   the first decoder tier that succeeds ("strict", "lenient",
\*         "pandas", or "bad" when every tier fails)
\*   smp   which sampling reader succeeds ("strict": both; "pandas": only
\*         pandas; "bad": none)
\*   cols  the header, in file order; rows the decoded row count
\*   cells per column, the kind of each cell: "num" matches numeric_re and
\*         casts to Float64, "text" does neither, "null" is empty
FileA ==
    [hdr |-> "strict", dec |-> "strict", smp |-> "strict",
     cols |-> <<"date", "total_count">>, rows |-> 2,
     cells |-> ("date" :> <<"text", "text">>) @@ ("total_count" :> <<"num", "num">>)]
FileB ==
    [hdr |-> "strict", dec |-> "strict", smp |-> "strict",
     cols |-> <<"total_count", "region", "date">>, rows |-> 3,
     cells |-> ("total_count" :> <<"num", "null", "num">>)
               @@ ("region" :> <<"text", "null", "text">>)
               @@ ("date" :> <<"text", "text", "text">>)]
FileC ==
    [hdr |-> "strict", dec |-> "strict", smp |-> "strict",
     cols |-> <<"date">>, rows |-> 1,
     cells |-> ("date" :> <<"text">>)]
FileD ==
    [hdr |-> "strict", dec |-> "bad", smp |-> "bad",
     cols |-> <<"date", "extra">>, rows |-> 0,
     cells |-> ("date" :> <<>>) @@ ("extra" :> <<>>)]
FileE ==
    [hdr |-> "bad", dec |-> "pandas", smp |-> "pandas",
     cols |-> <<"region", "extra">>, rows |-> 2,
     cells |-> ("region" :> <<"text", "text">>) @@ ("extra" :> <<"num", "num">>)]
FileF ==
    [hdr |-> "pandas", dec |-> "lenient", smp |-> "pandas",
     cols |-> <<"total_count", "date">>, rows |-> 2,
     cells |-> ("total_count" :> <<"num", "text">>) @@ ("date" :> <<"text", "text">>)]

FileKinds == {FileA, FileB, FileC, FileD, FileE, FileF}

RECURSIVE SeqsUpTo(_, _)
SeqsUpTo(S, n) ==
    IF n = 0 THEN {<<>>}
    ELSE LET shorter == SeqsUpTo(S, n - 1)
         IN  shorter \cup {Append(s, x) : s \in {t \in shorter : Len(t) = n - 1}, x \in S}

VARIABLES
    csvs, sample, max_files, skip_bad_files, pd,     \* the run's inputs
    pc, err,                                         \* control position, raised error
    i, all_cols, seen,                               \* header scan
    canonical_types,                                 \* type inference
    k, total_rows, files_written, chunks,            \* writer loop
    hdr_read, sampled, decoded,                      \* files each phase has opened
    ret,                                             \* load_metrics' return value
    d_vals, d_thr, d_pc, d_lazy, d_eager             \* detect_drops

loaderVars == <<csvs, sample, max_files, skip_bad_files, pd, pc, err, i, all_cols,
                seen, canonical_types, k, total_rows, files_written, chunks,
                hdr_read, sampled, decoded, ret>>
dropVars == <<d_vals, d_thr, d_pc, d_lazy, d_eager>>
vars == <<loaderVars, dropVars>>

\* ---------------------------------------------------------- readers
\* loader.py:92-106: the header read of one file.
HeaderReadable(f) == f.hdr = "strict" \/ (pd /\ f.hdr = "pandas")

\* loader.py:17-62: the decoder's tiers, first success wins; tier 3 needs pandas.
Decodable(f) ==
    \/ f.dec = "strict"
    \/ f.dec = "lenient"
    \/ (pd /\ f.dec = "pandas")

\* loader.py:129-154: the sampling read; any exception skips the file.
SampleReadable(f) == IF pd THEN f.smp \in {"strict", "pandas"} ELSE f.smp = "strict"

\* ------------------------------------------------------- header scan
\* loader.py:108-111: fold one header into the ordered, duplicate-free list.
RECURSIVE FoldCols(_, _)
FoldCols(cols, acc) ==
    IF cols = <<>> THEN acc
    ELSE FoldCols(Tail(cols),
                  IF Head(cols) \in Range(acc) THEN acc ELSE Append(acc, Head(cols)))

\* loader.py:113-118: the key metric is appended when no header declared it.
EnsureMetric(cols) ==
    IF "total_count" \in Range(cols) THEN cols ELSE Append(cols, "total_count")

\* loader.py:89-91: the header loop is over, by exhaustion or by the file budget.
HeaderLoopOver == i > Len(csvs) \/ (max_files # None /\ i - 1 >= max_files)

\* ---------------------------------------------------- type inference
\* loader.py:122: the files sampled, whatever the file budget.
SampleFiles == 1..Min(Len(csvs), SampleFileLimit)

RECURSIVE CountIn(_, _)
CountIn(cells, kinds) ==
    IF cells = <<>> THEN 0
    ELSE (IF Head(cells) \in kinds THEN 1 ELSE 0) + CountIn(Tail(cells), kinds)

\* loader.py:132, 142: at most sample_rows rows of the file are read.
Sampled(f, col) == SubSeq(f.cells[col], 1, Min(f.rows, sample_rows))

\* loader.py:128-154: one file's contribution to a column's votes.
FileVotes(f, col, kinds) ==
    IF SampleReadable(f) /\ col \in Range(f.cols)
    THEN CountIn(Sampled(f, col), kinds)
    ELSE 0

RECURSIVE Votes(_, _, _)
Votes(col, kinds, n) ==
    IF n = 0 THEN 0
    ELSE Votes(col, kinds, n - 1)
         + (IF n \in SampleFiles THEN FileVotes(csvs[n], col, kinds) ELSE 0)

\* loader.py:155-161: the decision rule.
InferType(col) ==
    LET non_null_votes == Votes(col, {"num", "text"}, Len(csvs))
        numeric_votes == Votes(col, {"num"}, Len(csvs))
    IN  IF non_null_votes = 0 THEN "Utf8"
        ELSE IF numeric_votes * 100 >= NumericPct * non_null_votes THEN "Float64"
        ELSE "Utf8"

\* ------------------------------------------------------- normalizer
\* loader.py:181-182: df.head(remaining) when the file is taller than the quota.
TruncateMutant(height, remaining) == height
Truncate(height, remaining) == IF height > remaining THEN remaining ELSE height

\* loader.py:185-190: missing canonical columns are appended as null columns.
WithMissing(dfcols, canon) ==
    dfcols \o SelectSeq(canon, LAMBDA c : c \notin Range(dfcols))

\* loader.py:205: df.select([pl.col(c) for c in all_cols]).
ReorderMutant(dfcols, canon) == dfcols
Reorder(dfcols, canon) == SelectSeq(canon, LAMBDA c : c \in Range(dfcols))

\* loader.py:193-202: df.with_columns(cast_cols) is a strict cast made outside
\* the try block, so it raises when a kept cell of an existing column cannot
\* be cast to the column's canonical type (a "text" cell, to Float64).
CastRaises(f, height) ==
    \E c \in Range(f.cols) :
        /\ c \in Range(all_cols)
        /\ canonical_types[c] = "Float64"
        /\ "text" \in Range(SubSeq(f.cells[c], 1, height))

\* loader.py:165-167: the writer loop is over, by exhaustion or by the file budget.
WriterLoopOver == k > Len(csvs) \/ (max_files # None /\ files_written >= max_files)

\* ------------------------------------------------------------- Init
NoFrame == [kind |-> "none", cols |-> <<>>]

DropsIdle ==
    /\ d_vals = <<>>
    /\ d_thr = <<0, 1>>
    /\ d_pc = "idle"
    /\ d_lazy = <<>>
    /\ d_eager = <<>>

LoaderInput ==
    /\ csvs \in SeqsUpTo(FileKinds, MaxFiles)
    /\ sample \in {None} \cup (0..MaxSample)
    /\ max_files \in {None} \cup (0..MaxBudget)
    /\ skip_bad_files \in BOOLEAN
    /\ pd \in BOOLEAN

LoaderStart ==
    /\ pc = "start"
    /\ err = "none"
    /\ i = 1
    /\ all_cols = <<>>
    /\ seen = {}
    /\ canonical_types = <<>>
    /\ k = 1
    /\ total_rows = 0
    /\ files_written = 0
    /\ chunks = <<>>
    /\ hdr_read = {}
    /\ sampled = {}
    /\ decoded = {}
    /\ ret = NoFrame

Init == LoaderInput /\ LoaderStart /\ DropsIdle

inputs == <<csvs, sample, max_files, skip_bad_files, pd>>

\* ---------------------------------------------------------- actions
\* loader.py:76-84: list the files; none is an error.
Discover ==
    /\ pc = "start"
    /\ IF csvs = <<>>
       THEN pc' = "error" /\ err' = "FileNotFoundError"
       ELSE pc' = "headers" /\ err' = err
    /\ UNCHANGED <<inputs, i, all_cols, seen, canonical_types, k, total_rows,
                   files_written, chunks, hdr_read, sampled, decoded, ret>>

\* loader.py:89-111: one iteration of the header loop.
HeaderStep ==
    /\ pc = "headers"
    /\ ~HeaderLoopOver
    /\ hdr_read' = hdr_read \cup {i}
    /\ IF HeaderReadable(csvs[i])
       THEN /\ all_cols' = FoldCols(csvs[i].cols, all_cols)
            /\ seen' = seen \cup Range(csvs[i].cols)
            /\ i' = i + 1
            /\ UNCHANGED <<pc, err>>
       ELSE IF skip_bad_files
       THEN /\ i' = i + 1
            /\ UNCHANGED <<all_cols, seen, pc, err>>
       ELSE /\ pc' = "error"
            /\ err' = "HeaderReadError"
            /\ UNCHANGED <<all_cols, seen, i>>
    /\ UNCHANGED <<inputs, canonical_types, k, total_rows, files_written, chunks,
                   sampled, decoded, ret>>

\* loader.py:113-161: after the header loop, ensure the key metric and infer
\* every canonical column's type from the sampled files.
InferTypes ==
    /\ pc = "headers"
    /\ HeaderLoopOver
    /\ all_cols' = EnsureMetric(all_cols)
    /\ seen' = Range(all_cols')
    /\ canonical_types' = [c \in Range(all_cols') |-> InferType(c)]
    /\ sampled' = SampleFiles
    /\ pc' = "write"
    /\ UNCHANGED <<inputs, err, i, k, total_rows, files_written, chunks, hdr_read,
                   decoded, ret>>

\* loader.py:165-216: one iteration of the writer loop.
WriterStep ==
    /\ pc = "write"
    /\ ~WriterLoopOver
    /\ decoded' = decoded \cup {k}
    /\ LET f == csvs[k]
           remaining == sample - total_rows
           height == IF sample # None THEN Truncate(f.rows, remaining) ELSE f.rows
           out == Reorder(WithMissing(f.cols, all_cols), all_cols)
       IN  IF ~Decodable(f)
           THEN IF skip_bad_files
                THEN /\ k' = k + 1
                     /\ UNCHANGED <<pc, err, total_rows, files_written, chunks>>
                ELSE /\ pc' = "error"
                     /\ err' = "DecodeError"
                     /\ UNCHANGED <<k, total_rows, files_written, chunks>>
           ELSE IF sample # None /\ remaining <= 0
           THEN /\ pc' = "return"
                /\ UNCHANGED <<err, k, total_rows, files_written, chunks>>
           ELSE IF CastRaises(f, height)
           THEN /\ pc' = "error"
                /\ err' = "CastError"
                /\ UNCHANGED <<k, total_rows, files_written, chunks>>
           ELSE /\ chunks' = Append(chunks, [part |-> files_written, src |-> k,
                                             cols |-> out, rows |-> height])
                /\ total_rows' = total_rows + height
                /\ files_written' = files_written + 1
                /\ k' = k + 1
                /\ pc' = IF sample # None /\ total_rows' >= sample
                         THEN "return" ELSE "write"
                /\ err' = err
    /\ UNCHANGED <<inputs, i, all_cols, seen, canonical_types, hdr_read, sampled, ret>>

\* loader.py:218-226: the return value.
EmptyFrame(canon) == [kind |-> "DataFrame", cols |-> <<>>]

Return ==
    /\ pc = "return" \/ (pc = "write" /\ WriterLoopOver)
    /\ ret' = IF files_written = 0
              THEN EmptyFrame(all_cols)
              ELSE [kind |-> "LazyFrame", cols |-> chunks[1].cols]
    /\ pc' = "done"
    /\ UNCHANGED <<inputs, err, i, all_cols, seen, canonical_types, k, total_rows,
                   files_written, chunks, hdr_read, sampled, decoded>>

Next ==
    \/ (Discover /\ UNCHANGED dropVars)
    \/ (HeaderStep /\ UNCHANGED dropVars)
    \/ (InferTypes /\ UNCHANGED dropVars)
    \/ (WriterStep /\ UNCHANGED dropVars)
    \/ (Return /\ UNCHANGED dropVars)

Spec == Init /\ [][Next]_vars

TypeOK ==
    /\ pc \in {"start", "headers", "write", "return", "done", "error"}
    /\ err \in {"none", "FileNotFoundError", "HeaderReadError", "DecodeError", "CastError"}
    /\ seen = Range(all_cols) \/ pc = "error"

\* checks.py:6-13: detect_drops cannot find the column: the eager path raises
\* ValueError itself, the lazy path fails when the plan is collected.
ColumnNotFound(frame, col) == col \notin Range(frame.cols)

\* ------------------------------------------------------ detect_drops
\* A cell of the metric column: null, or a number.
Null == [t |-> "null"]
Num(n) == [t |-> "num", v |-> n]
\* A change_rate: null, a fraction n/d with d > 0, or what Float64 division
\* by zero yields (inf, -inf, nan).
Frac(n, d) == [t |-> "frac", n |-> n, d |-> d]
Special(name) == [t |-> name]

CellValues == {Null, Num(0), Num(50), Num(52), Num(95), Num(100), Num(-100)}
\* thresholds tn/td: 0, the default 0.05, and 1/2
Thresholds == {<<0, 1>>, <<1, 20>>, <<1, 2>>}

\* checks.py:7, 14: col.diff(): null on the first row and beside a null.
Diff(vals, r) ==
    IF r = 1 \/ vals[r].t = "null" \/ vals[r - 1].t = "null" THEN Null
    ELSE Num(vals[r].v - vals[r - 1].v)

\* checks.py:7, 14: col.shift(1): the previous row's value, null on the first row.
Shift(vals, r) == IF r = 1 THEN Null ELSE vals[r - 1]

\* checks.py:7, 14: the division, which polars computes in Float64.
Divide(a, b) ==
    IF a.t = "null" \/ b.t = "null" THEN Null
    ELSE IF b.v = 0
         THEN (IF a.v > 0 THEN Special("inf")
               ELSE IF a.v < 0 THEN Special("-inf") ELSE Special("nan"))
    ELSE IF b.v > 0 THEN Frac(a.v, b.v) ELSE Frac(-a.v, -b.v)

ChangeRate(vals, r) == Divide(Diff(vals, r), Shift(vals, r))

\* checks.py:8, 15: change_rate < -threshold; filter keeps a row only when the
\* comparison is true (a null comparison is not).
BelowMutant(cr, thr) ==
    IF cr.t = "frac" THEN cr.n * thr[2] <= (-thr[1]) * cr.d ELSE cr.t = "-inf"
Below(cr, thr) ==
    IF cr.t = "frac" THEN cr.n * thr[2] < (-thr[1]) * cr.d ELSE cr.t = "-inf"

WithChangeRate(vals) ==
    [r \in 1..Len(vals) |-> [row |-> r, value |-> vals[r], change_rate |-> ChangeRate(vals, r)]]

\* checks.py:6-9: the LazyFrame path: with_columns, filter on the new column, collect.
DetectDropsLazy(vals, thr) ==
    SelectSeq(WithChangeRate(vals), LAMBDA x : Below(x.change_rate, thr))

\* checks.py:11-15: the eager path: the frame is rebound to the one carrying
\* change_rate, and filtered by a mask computed from that column.
DetectDropsEager(vals, thr) ==
    LET df == WithChangeRate(vals)
        mask == [r \in 1..Len(df) |-> Below(df[r].change_rate, thr)]
        RECURSIVE Keep(_)
        Keep(r) == IF r = 0 THEN <<>>
                   ELSE IF mask[r] THEN Append(Keep(r - 1), df[r]) ELSE Keep(r - 1)
    IN  Keep(Len(df))

DropsInput ==
    /\ d_vals \in SeqsUpTo(CellValues, MaxLen)
    /\ d_thr \in Thresholds
    /\ d_pc = "idle"
    /\ d_lazy = <<>>
    /\ d_eager = <<>>

LoaderIdle ==
    /\ csvs = <<>>
    /\ sample = None
    /\ max_files = None
    /\ skip_bad_files = FALSE
    /\ pd = FALSE
    /\ LoaderStart

InitDrops == LoaderIdle /\ DropsInput

\* detect_drops applied to a LazyFrame holding the column.
DetectLazy ==
    /\ d_pc \in {"idle", "eager"}
    /\ d_lazy' = DetectDropsLazy(d_vals, d_thr)
    /\ d_pc' = IF d_pc = "idle" THEN "lazy" ELSE "both"
    /\ UNCHANGED <<d_vals, d_thr, d_eager>>

\* detect_drops applied to a DataFrame holding the column.
DetectEager ==
    /\ d_pc \in {"idle", "lazy"}
    /\ d_eager' = DetectDropsEager(d_vals, d_thr)
    /\ d_pc' = IF d_pc = "idle" THEN "eager" ELSE "both"
    /\ UNCHANGED <<d_vals, d_thr, d_lazy>>

NextDrops ==
    \/ (DetectLazy /\ UNCHANGED loaderVars)
    \/ (DetectEager /\ UNCHANGED loaderVars)

SpecDrops == InitDrops /\ [][NextDrops]_vars

\* =================================================================
\* Claims about load_metrics, checked under Spec
\* =================================================================
SchemaFrozen == pc \in {"write", "return", "done"}
NoDuplicates(s) == Cardinality(Range(s)) = Len(s)
Written == {chunks[j].src : j \in 1..Len(chunks)}

RECURSIVE DecodableRows(_)
DecodableRows(n) ==
    IF n = 0 THEN 0
    ELSE DecodableRows(n - 1) + (IF Decodable(csvs[n]) THEN csvs[n].rows ELSE 0)

RECURSIVE ChunkRows(_)
ChunkRows(n) == IF n = 0 THEN 0 ELSE ChunkRows(n - 1) + chunks[n].rows

\* C1: once schema discovery is over, all_cols holds every header column of
\* every file that is normalized and written, each exactly once, and holds
\* total_count, whatever the file budget.
C1_SchemaUnion ==
    SchemaFrozen =>
        /\ NoDuplicates(all_cols)
        /\ "total_count" \in Range(all_cols)
        /\ \A n \in Written : Range(csvs[n].cols) \subseteq Range(all_cols)

\* C2: every chunk written has exactly the canonical columns, in canonical
\* order, none twice, whatever the decoded file's own columns were.
C2_ChunkColumns ==
    \A j \in 1..Len(chunks) :
        /\ chunks[j].cols = all_cols
        /\ NoDuplicates(chunks[j].cols)

\* C2 witness: a chunk was written from a file that both lacks a canonical
\* column and carries a column outside the canonical schema.
C2_Witness ==
    \E j \in 1..Len(chunks) :
        LET own == Range(csvs[chunks[j].src].cols)
        IN  /\ own \ Range(all_cols) # {}
            /\ Range(all_cols) \ own # {}
            /\ csvs[chunks[j].src].cols # SelectSeq(all_cols, LAMBDA c : c \in own)

\* C3: with a row budget and no file budget, a run that returns has written
\* exactly min(sample, rows of the decodable files) rows; each chunk holds the
\* leading rows of its file up to the remaining quota; and once the budget is
\* reached no later file is decoded.
C3_RowBudget ==
    (pc = "done" /\ sample # None /\ max_files = None) =>
        /\ total_rows = Min(sample, DecodableRows(Len(csvs)))
        /\ ChunkRows(Len(chunks)) = total_rows
        /\ \A j \in 1..Len(chunks) :
               chunks[j].rows = Min(csvs[chunks[j].src].rows, sample - ChunkRows(j - 1))
        /\ (chunks # <<>> /\ total_rows = sample) =>
               \A n \in decoded : n <= chunks[Len(chunks)].src

\* C3 witness: a returned run whose last chunk is a proper, non-empty prefix
\* of its file, with a further file left unread after it.
C3_Witness ==
    /\ pc = "done" /\ sample # None /\ max_files = None
    /\ Len(chunks) >= 2
    /\ LET last == chunks[Len(chunks)]
       IN  /\ 0 < last.rows
           /\ last.rows < csvs[last.src].rows
           /\ last.src < Len(csvs)
           /\ decoded = 1..last.src

\* C4: with a file budget, at most max_files chunks are written and no file
\* past the budgeted ones is opened by the header scan, the sampling, or the
\* decoder.
C4_FileBudget ==
    max_files # None =>
        /\ Len(chunks) <= max_files
        /\ \A n \in hdr_read \cup sampled \cup decoded : n <= max_files

\* C5: with skip_bad_files and no budgets the run raises no error and the
\* dataset is exactly the decodable files, in order, numbered without gaps;
\* without skip_bad_files the first undecodable file aborts the run.
C5_SkipBadFiles ==
    /\ (skip_bad_files /\ sample = None /\ max_files = None /\ csvs # <<>>) =>
           /\ pc # "error"
           /\ pc = "done" =>
                  /\ Written = {n \in 1..Len(csvs) : Decodable(csvs[n])}
                  /\ \A j \in 1..Len(chunks) :
                         /\ chunks[j].part = j - 1
                         /\ chunks[j].rows = csvs[chunks[j].src].rows
                         /\ j > 1 => chunks[j - 1].src < chunks[j].src
    /\ (~skip_bad_files) =>
           \A n \in decoded :
               ~Decodable(csvs[n]) => (pc = "error" /\ err = "DecodeError" /\ n = k
                                        /\ \A m \in decoded : m <= n)

\* C6: normalization never raises on an uncastable column.
C6_CastNeverRaises == err # "CastError"

\* C8: a run that returns with zero chunks returns an empty table with the
\* canonical columns, on which the metric column is found.
C8_EmptyDataset ==
    (pc = "done" /\ files_written = 0) =>
        /\ ret.kind = "DataFrame"
        /\ ret.cols = all_cols
        /\ ~ColumnNotFound(ret, "total_count")

\* C9: in the frozen schema total_count is present with type Float64.
C9_MetricNumeric ==
    SchemaFrozen =>
        /\ "total_count" \in DOMAIN canonical_types
        /\ canonical_types["total_count"] = "Float64"

\* C10: under skip_bad_files a file whose header could not be read is never
\* decoded by the writer loop and no chunk is written from it.
C10_HeaderSkipIsFinal ==
    skip_bad_files =>
        \A n \in hdr_read :
            ~HeaderReadable(csvs[n]) => (n \notin decoded /\ n \notin Written)

\* =================================================================
\* Claims about detect_drops, checked under SpecDrops
\* =================================================================
\* every row but the last is a non-null, non-zero number
CleanPredecessors(vals) ==
    \A r \in 1..(Len(vals) - 1) : vals[r].t = "num" /\ vals[r].v # 0

\* (v[r] - v[r-1]) / v[r-1] < -tn/td, cleared of its denominators
IsDrop(vals, r, thr) ==
    /\ r >= 2
    /\ vals[r].t = "num"
    /\ LET prev == vals[r - 1].v
           delta == vals[r].v - prev
       IN  IF prev > 0 THEN delta * thr[2] < (-thr[1]) * prev
           ELSE delta * thr[2] > (-thr[1]) * prev

RowsOf(res) == {res[j].row : j \in 1..Len(res)}

ExactDrops(res, vals, thr) ==
    /\ RowsOf(res) = {r \in 1..Len(vals) : IsDrop(vals, r, thr)}
    /\ \A j \in 1..Len(res) :
           /\ j > 1 => res[j - 1].row < res[j].row
           /\ res[j].row # 1
           /\ res[j].value = vals[res[j].row]
           /\ res[j].change_rate.t = "frac"
           /\ res[j].change_rate.n * vals[res[j].row - 1].v
                  = (vals[res[j].row].v - vals[res[j].row - 1].v) * res[j].change_rate.d

\* C7: on a column whose predecessors are all non-null and non-zero, both paths
\* of detect_drops return exactly the rows r >= 2 whose change_rate is strictly
\* below -threshold, in order, each with its value and its change_rate; a
\* change_rate equal to -threshold is not returned; the two paths agree.
C7_DetectDrops ==
    CleanPredecessors(d_vals) =>
        /\ d_pc \in {"lazy", "both"} => ExactDrops(d_lazy, d_vals, d_thr)
        /\ d_pc \in {"eager", "both"} => ExactDrops(d_eager, d_vals, d_thr)
        /\ d_pc = "both" => d_lazy = d_eager

\* C7 witness: both paths ran on [100, 95, 50, 52] at threshold 0.05 and
\* returned the row holding 50 alone: 95 sits exactly on the threshold.
C7_Witness ==
    /\ d_pc = "both"
    /\ d_vals = <<Num(100), Num(95), Num(50), Num(52)>>
    /\ d_thr = <<1, 20>>
    /\ RowsOf(d_lazy) = {3}
    /\ RowsOf(d_eager) = {3}

\* rows whose immediately preceding value is zero or null
BadPredecessorRows(vals) ==
    {r \in 2..Len(vals) : vals[r - 1].t = "null" \/ vals[r - 1].v = 0}

\* C11: a row whose immediately preceding metric value is zero or null is
\* never returned by detect_drops, on either path, whatever its own value and
\* whatever the threshold.
C11_ZeroOrNullPredecessor ==
    /\ d_pc \in {"lazy", "both"} => RowsOf(d_lazy) \cap BadPredecessorRows(d_vals) = {}
    /\ d_pc \in {"eager", "both"} => RowsOf(d_eager) \cap BadPredecessorRows(d_vals) = {}

====
